---- MODULE Spec2Model ----
(***************************************************************************)
(* Model of the wrapper type generated by vec_of_enum::define! for the     *)
(* crate's documented example:                                             *)
(*                                                                         *)
(*   pub struct ValidationErrorsWithVariants(Vec<ValidationError>);        *)
(*   variants = [PasswordMinLengthError, InvalidEmailError];               *)
(*                                                                         *)
(* The wrapper is a one-field struct; every generated method and trait     *)
(* implementation is translated below.  Vec<T> is a finite sequence.       *)
(***************************************************************************)
EXTENDS Integers, Sequences, FiniteSets, TLC

\* Largest number of elements a wrapper holds in the model.
MaxLen == 3
\* Largest number of completed by-reference iterations between two mutations.
MaxRuns == 2

----------------------------------------------------------------------------
\* The element type and the values convertible into it (doc example).

MinLengths == {8}
Emails == {"user@example.com"}
Reasons == {"domain is blocked", "no mx record"}

\* pub struct PasswordMinLengthError { min_length: usize }
PasswordMinLengthError ==
    [type : {"PasswordMinLengthError"}, min_length : MinLengths]

\* pub struct InvalidEmailError { email: String, reason: String }
InvalidEmailError ==
    [type : {"InvalidEmailError"}, email : Emails, reason : Reasons]

\* (&str, &str), the source of the hand-written convenience conversion
StrPair == [type : {"StrPair"}, email : Emails, reason : Reasons]

\* pub enum ValidationError { PasswordMinLength(..), InvalidEmail(..) }
ValidationError ==
    [type : {"ValidationError"}, variant : {"PasswordMinLength"},
     payload : PasswordMinLengthError]
    \cup
    [type : {"ValidationError"}, variant : {"InvalidEmail"},
     payload : InvalidEmailError]

\* variants = [PasswordMinLengthError, InvalidEmailError];
Variants == PasswordMinLengthError \cup InvalidEmailError

\* Every value v with v: Into<ValidationError>
Convertible == ValidationError \cup Variants \cup StrPair

\* InvalidEmailError::new(email, reason)
InvalidEmailError_new(email, reason) ==
    [type |-> "InvalidEmailError", email |-> email, reason |-> reason]

\* ValidationError::from(v): the reflexive From<T> for T, the derived
\* From<variant payload>, and the impl From<(&str, &str)>.
ElementFrom(v) ==
    CASE v.type = "ValidationError" -> v
      [] v.type = "PasswordMinLengthError" ->
            [type |-> "ValidationError", variant |-> "PasswordMinLength",
             payload |-> v]
      [] v.type = "InvalidEmailError" ->
            [type |-> "ValidationError", variant |-> "InvalidEmail",
             payload |-> v]
      [] v.type = "StrPair" ->
            [type |-> "ValidationError", variant |-> "InvalidEmail",
             payload |-> InvalidEmailError_new(v.email, v.reason)]

----------------------------------------------------------------------------
\* Bounded input domains.

SeqsUpTo(S, n) == UNION {[1..k -> S] : k \in 0..n}

----------------------------------------------------------------------------
\* std::vec::Vec operations reached through the wrapper.

Vec_new == <<>>
Vec_push(vec, x) == Append(vec, x)
Vec_extend(vec, items) == vec \o items
Vec_len(vec) == Len(vec)
Vec_remove(vec, i) == SubSeq(vec, 1, i - 1) \o SubSeq(vec, i + 1, Len(vec))
Vec_swap(vec, i, j) ==
    [k \in 1..Len(vec) |-> IF k = i THEN vec[j] ELSE IF k = j THEN vec[i] ELSE vec[k]]

\* Sequence helpers used by the seeded faults and the properties below.
Reverse(items) == [k \in 1..Len(items) |-> items[Len(items) + 1 - k]]
Contains(items, x) == \E k \in 1..Len(items) : items[k] = x

\* iter.into_iter().map(T::into)
MapInto(items) == [k \in 1..Len(items) |-> ElementFrom(items[k])]

----------------------------------------------------------------------------
\* The generated struct and its functions.

\* struct $name(Vec<$inner>): the tuple-struct constructor Self(..)
Self(vec) == [inner |-> vec]

\* Fault: the view shows each distinct element once.
RECURSIVE Dedup(_)
Dedup(items) ==
    IF items = <<>>
    THEN <<>>
    ELSE LET front == Dedup(SubSeq(items, 1, Len(items) - 1))
             last == items[Len(items)]
         IN  IF Contains(front, last) THEN front ELSE Append(front, last)

deref_dedup(self) == Dedup(self.inner)

\* Deref::deref / DerefMut::deref_mut: &self.0
deref(self) == self.inner

\* Fault: the argument is dropped.
new_empty(inner) == Self(Vec_new)

\* pub fn new(inner: impl Into<Vec<$inner>>) -> Self
new(inner) == Self(inner)

\* Fault: the default holds one default-constructed element.
default_one ==
    Self(<<[type |-> "ValidationError", variant |-> "PasswordMinLength",
            payload |-> [type |-> "PasswordMinLengthError", min_length |-> 8]]>>)

\* Default::default
default == Self(Vec_new)

\* From<Vec<$inner>> for $name
from_vec(vec) == Self(vec)

\* From<$name> for Vec<$inner>
into_vec(value) == value.inner

\* Fault: vec![source.into(); 2]
from_value_twice(source) == Self(<<ElementFrom(source), ElementFrom(source)>>)

\* From<$value_source> for $name
from_value(source) == Self(<<ElementFrom(source)>>)

\* Fault: insert(0, ..) instead of push(..)
push_front(self, value) == Self(<<ElementFrom(value)>> \o self.inner)

\* Fault: the last slot is overwritten instead of a new one being added.
push_overwrite(self, value) ==
    Self(IF self.inner = <<>>
         THEN <<ElementFrom(value)>>
         ELSE [self.inner EXCEPT ![Len(self.inner)] = ElementFrom(value)])

\* pub fn push(&mut self, value: impl Into<$inner>)
push(self, value) == Self(Vec_push(self.inner, ElementFrom(value)))

\* Fault: the contents are replaced instead of extended.
extend_replace(self, iter) == Self(iter)

\* Extend<$inner>::extend
extend(self, iter) == Self(Vec_extend(self.inner, iter))

\* Fault: the items are appended in reverse iteration order.
extend_from_rev(self, iter) ==
    Self(Vec_extend(self.inner, Reverse(MapInto(iter))))

\* pub fn extend_from<T: Into<$inner>>(&mut self, iter)
extend_from(self, iter) == extend(self, MapInto(iter))

\* Fault: the elements are handed out from the back.
into_iter_own_rev(self) == Reverse(self.inner)

\* IntoIterator for $name: self.0.into_iter()
into_iter_own(self) == self.inner

\* Fault: self.0.iter().skip(1)
into_iter_ref_skip(self) == IF self.inner = <<>> THEN <<>> ELSE Tail(self.inner)

\* IntoIterator for &$name: self.0.iter()
into_iter_ref(self) == self.inner

----------------------------------------------------------------------------
\* One wrapper value and the iterator obtained from it.

VARIABLES
    w,        \* the wrapper value (the struct, with its one field)
    live,     \* FALSE once the wrapper has been moved out of
    it,       \* the iterator in use: [kind, rest, done]
    yielded,  \* the items the iterator has returned from next() so far
    runs,     \* results of the completed by-reference iterations since the last mutation
    op,       \* the operation that produced this state
    prev,     \* for a constructor and for into_vec: the operation before it
    pre,      \* the contents of the wrapper before the operation
    arg,      \* the argument of the operation
    out       \* the value the operation returned

vars == <<w, live, it, yielded, runs, op, prev, pre, arg, out>>

NoArg == <<>>
\* What is left in a binding whose value has been moved out.
Moved == Self(<<>>)
NoIter == [kind |-> "none", rest |-> <<>>, done |-> FALSE]

\* A &mut borrow of the wrapper needs it not moved and no live shared borrow:
\* a by-reference iterator that is still going to be used.
CanMutate == live /\ (it.kind = "ref" => it.done)
\* A shared borrow of the wrapper only needs it not moved.
CanRead == live

\* let mut errors = ValidationErrors::default();
Init ==
    /\ w = default
    /\ live = TRUE
    /\ it = NoIter
    /\ yielded = <<>>
    /\ runs = <<>>
    /\ op = "default"
    /\ prev = "-"
    /\ pre = <<>>
    /\ arg = NoArg
    /\ out = NoArg

\* errors = <constructor>: what binding a freshly constructed value does to
\* the rest of the state.  The value held before is dropped.
Bind(name, a) ==
    /\ live' = TRUE
    /\ it' = NoIter
    /\ yielded' = <<>>
    /\ runs' = <<>>
    /\ op' = name
    /\ prev' = op
    /\ pre' = <<>>
    /\ arg' = a
    /\ out' = NoArg

\* An in-place mutation through &mut self.
Mutate(value, name, a) ==
    /\ CanMutate
    /\ w' = value
    /\ live' = TRUE
    /\ it' = NoIter
    /\ yielded' = <<>>
    /\ runs' = <<>>
    /\ op' = name
    /\ prev' = "-"
    /\ pre' = w.inner
    /\ arg' = a
    /\ out' = NoArg

\* let errors = ValidationErrors::default();
Default ==
    /\ w' = default
    /\ Bind("default", NoArg)

\* let errors = ValidationErrors::new(S);
New ==
    \E S \in SeqsUpTo(ValidationError, MaxLen) :
        /\ w' = new(S)
        /\ Bind("new", S)

\* let errors: ValidationErrors = S.into();
FromVec ==
    \E S \in SeqsUpTo(ValidationError, MaxLen) :
        /\ w' = from_vec(S)
        /\ Bind("from_vec", S)

\* let errors: ValidationErrorsWithVariants = t.into();
FromValue ==
    \E t \in Variants :
        /\ w' = from_value(t)
        /\ Bind("from_value", t)

Push ==
    \E v \in Convertible :
        /\ Len(w.inner) < MaxLen
        /\ Mutate(push(w, v), "push", v)

ExtendFrom ==
    \E I \in SeqsUpTo(Convertible, MaxLen - Len(w.inner)) :
        /\ Len(w.inner) + Len(I) <= MaxLen
        /\ Mutate(extend_from(w, I), "extend_from", I)

Extend ==
    \E I \in SeqsUpTo(ValidationError, MaxLen - Len(w.inner)) :
        /\ Len(w.inner) + Len(I) <= MaxLen
        /\ Mutate(extend(w, I), "extend", I)

\* errors.remove(i), through DerefMut
Remove ==
    \E i \in 1..MaxLen :
        /\ i <= Vec_len(deref(w))
        /\ Mutate(Self(Vec_remove(deref(w), i)), "remove", i)

\* errors.swap(i, j), through DerefMut
Swap ==
    \E i, j \in 1..MaxLen :
        /\ i < j
        /\ j <= Vec_len(deref(w))
        /\ Mutate(Self(Vec_swap(deref(w), i, j)), "swap", <<i, j>>)

\* errors.len(), through Deref
LenOf ==
    /\ CanRead
    /\ out' = Vec_len(deref(w))
    /\ op' = "len"
    /\ prev' = "-"
    /\ pre' = w.inner
    /\ arg' = NoArg
    /\ UNCHANGED <<w, live, it, yielded, runs>>

\* let vec: Vec<ValidationError> = errors.into();
IntoVec ==
    /\ CanMutate
    /\ out' = into_vec(w)
    /\ w' = Moved
    /\ live' = FALSE
    /\ it' = NoIter
    /\ yielded' = <<>>
    /\ runs' = <<>>
    /\ op' = "into_vec"
    /\ prev' = op
    /\ pre' = w.inner
    /\ arg' = IF op \in {"new", "from_vec"} THEN arg ELSE NoArg

\* for e in errors { .. }: the wrapper is moved into the iterator
IntoIterOwn ==
    /\ CanMutate
    /\ it' = [kind |-> "own", rest |-> into_iter_own(w), done |-> FALSE]
    /\ yielded' = <<>>
    /\ w' = Moved
    /\ live' = FALSE
    /\ runs' = <<>>
    /\ op' = "into_iter"
    /\ prev' = "-"
    /\ pre' = w.inner
    /\ arg' = NoArg
    /\ out' = NoArg

\* for e in &errors { .. }
IntoIterRef ==
    /\ CanMutate
    /\ Len(runs) < MaxRuns
    /\ it' = [kind |-> "ref", rest |-> into_iter_ref(w), done |-> FALSE]
    /\ yielded' = <<>>
    /\ op' = "iter"
    /\ prev' = "-"
    /\ pre' = w.inner
    /\ arg' = NoArg
    /\ out' = NoArg
    /\ UNCHANGED <<w, live, runs>>

\* Iterator::next on the iterator in use: Some(head) or, at the end, None
IterNext ==
    /\ it.kind \in {"own", "ref"}
    /\ IF it.rest # <<>>
       THEN /\ it' = [it EXCEPT !.rest = Tail(it.rest)]
            /\ yielded' = Append(yielded, Head(it.rest))
            /\ runs' = runs
       ELSE /\ it' = [it EXCEPT !.done = TRUE]
            /\ yielded' = yielded
            /\ runs' = IF it.kind = "ref" /\ ~it.done THEN Append(runs, yielded) ELSE runs
    /\ op' = "next"
    /\ UNCHANGED <<w, live, prev, pre, arg, out>>

Next ==
    \/ Default
    \/ New
    \/ FromVec
    \/ FromValue
    \/ Push
    \/ ExtendFrom
    \/ Extend
    \/ Remove
    \/ Swap
    \/ LenOf
    \/ IntoVec
    \/ IntoIterOwn
    \/ IntoIterRef
    \/ IterNext

Spec == Init /\ [][Next]_vars

TypeOK ==
    /\ w.inner \in SeqsUpTo(ValidationError, MaxLen)
    /\ live \in BOOLEAN
    /\ Len(runs) <= MaxRuns

----------------------------------------------------------------------------
\* Properties.

\* C1: push(v) makes the wrapper exactly one longer, and afterwards its last
\* element is ValidationError::from(v).
C1_PushAppendsConverted ==
    op = "push" =>
        /\ Vec_len(deref(w)) = Len(pre) + 1
        /\ deref(w)[Vec_len(deref(w))] = ElementFrom(arg)

\* A push of a (&str, &str) pair onto a wrapper that already holds two elements.
C1_Witness == op = "push" /\ Len(pre) = 2 /\ arg.type = "StrPair"

\* C2: extend_from(I) makes the wrapper Len(I) longer, and the new tail is the
\* element-wise conversion of I in iteration order.
C2_ExtendFromAppendsAll ==
    op = "extend_from" =>
        /\ Vec_len(deref(w)) = Len(pre) + Len(arg)
        /\ \A k \in 1..Len(arg) : deref(w)[Len(pre) + k] = ElementFrom(arg[k])

\* Two items that convert to different elements, appended to a non-empty wrapper.
C2_Witness ==
    /\ op = "extend_from"
    /\ Len(pre) = 1
    /\ Len(arg) = 2
    /\ ElementFrom(arg[1]) # ElementFrom(arg[2])
    /\ arg[1].type # "ValidationError"

\* C3: a wrapper built from a raw sequence S by new or From<Vec<_>> and then
\* unwrapped gives back S.
C3_RoundTrip ==
    (op = "into_vec" /\ prev \in {"new", "from_vec"}) => out = arg

\* Three elements, not all equal, wrapped by new and unwrapped again.
C3_Witness ==
    /\ op = "into_vec"
    /\ prev = "new"
    /\ Len(arg) = 3
    /\ arg[1] # arg[2]

\* C4: a value t of a declared variant type converts into a wrapper of
\* length one holding ValidationError::from(t).
C4_FromValueSingleton ==
    op = "from_value" =>
        /\ Vec_len(deref(w)) = 1
        /\ deref(w)[1] = ElementFrom(arg)

\* An InvalidEmailError converted into a wrapper.
C4_Witness == op = "from_value" /\ arg.type = "InvalidEmailError"

\* C5: the default wrapper has length 0 and equals new applied to the empty
\* sequence.
C5_DefaultIsEmpty ==
    op = "default" =>
        /\ Vec_len(deref(w)) = 0
        /\ w = new(<<>>)

\* A default wrapper bound where a wrapper that had been extended was held.
C5_Witness == op = "default" /\ live /\ prev = "extend_from"

\* C6: what length, by-reference iteration and unwrapping show of the
\* wrapper is the underlying sequence itself: every element, in order, equal
\* elements included.
C6_ObservableIsUnderlying ==
    /\ (op = "len" => out = Len(w.inner))
    /\ (it.kind = "ref" => yielded \o it.rest = w.inner)
    /\ ((it.kind = "ref" /\ it.done) => yielded = w.inner)
    /\ (op = "into_vec" => out = pre)

\* A wrapper holding two equal elements next to a different one, its length
\* read after it was iterated by reference to the end.
C6_Witness ==
    /\ op = "len"
    /\ out = 3
    /\ it.kind = "ref"
    /\ it.done
    /\ yielded[1] = yielded[2]
    /\ yielded[2] # yielded[3]

\* C7: iterating by reference neither consumes nor changes the wrapper, and
\* every such iteration yields the wrapper's elements in their order.
C7_RefIterationPure ==
    /\ (it.kind = "ref" => (live /\ w.inner = pre))
    /\ \A k \in 1..Len(runs) : runs[k] = w.inner

\* Two complete by-reference iterations in a row over three elements.
C7_Witness ==
    /\ Len(runs) = 2
    /\ Len(runs[1]) = 3
    /\ runs[1][1] # runs[1][3]
    /\ it.kind = "ref"
    /\ it.done

\* C8: owned iteration yields each element of the wrapper once, in order,
\* and then ends.
C8_OwnedIterationOnce ==
    it.kind = "own" =>
        /\ yielded \o it.rest = pre
        /\ (it.done => (yielded = pre /\ it.rest = <<>>))

\* An owned iteration over three elements [a, b, c] that has ended.
C8_Witness ==
    /\ it.kind = "own"
    /\ it.done
    /\ Len(yielded) = 3
    /\ yielded[1] # yielded[3]

\* Repeated push: push(x) for each x of items, in order.
RECURSIVE PushAll(_, _)
PushAll(self, items) ==
    IF items = <<>> THEN self ELSE PushAll(push(self, Head(items)), Tail(items))

\* C9: extend_from(I) leaves the wrapper as pushing the items of I one by one
\* does.
C9_ExtendFromIsRepeatedPush ==
    op = "extend_from" => w = PushAll(Self(pre), arg)

\* Three different items appended at once.
C9_Witness ==
    /\ op = "extend_from"
    /\ Len(arg) = 3
    /\ arg[1] # arg[2]
    /\ arg[2] # arg[3]

\* C10: push, extend_from and extend keep the elements the wrapper already
\* had, in place, and never shorten it.
C10_AppendOnly ==
    op \in {"push", "extend_from", "extend"} =>
        /\ Vec_len(deref(w)) >= Len(pre)
        /\ SubSeq(deref(w), 1, Len(pre)) = pre

\* A push of an element that differs from the last of two elements held.
C10_Witness ==
    /\ op = "push"
    /\ Len(pre) = 2
    /\ ElementFrom(arg) # pre[2]
    /\ arg.type = "ValidationError"

====
